---- MODULE Spec2Model ----
(***************************************************************************)
(* Model of the two scripts of pixi-build-tools:                           *)
(*                                                                         *)
(*   - the declaration-rollup runner                                       *)
(*       src/packages/api-extractor-lerna-monorepo/index.js                *)
(*     an async main() that checks tsconfig.json, filters the workspace    *)
(*     packages and runs api-extractor on each of them in a forEach;       *)
(*                                                                         *)
(*   - the bundle-config assembler                                         *)
(*       src/unnamed/part_000   (exports.main)                             *)
(*     a pure function of its options, the package manifest, the file      *)
(*     system and NODE_ENV that returns a list of rollup configurations.   *)
(*                                                                         *)
(* The two scripts do not interact: SpecRunner is the runner's state       *)
(* machine and SpecAssembler applies the assembler to bounded inputs.      *)
(***************************************************************************)
EXTENDS Integers, Sequences, FiniteSets, TLC

VARIABLES
    \* ---- runner: environment
    tsconfigFile,         \* what fs.existsSync / require find at tsconfigJson
    projectPackages,      \* what getPackages(projectFolder) resolves to
    unhandledRejections,  \* the runtime's mode for a rejected promise nobody handles
    \* ---- runner: program state
    pc,                   \* position in the script
    packageJsons,         \* line 37, the packages to run api-extractor on
    idx,                  \* position of forEach in packageJsons (1-based)
    compilerState,        \* line 39/85, the shared CompilerState
    extractorResult,      \* line 87, the callback's local of the latest iteration
    exitCode,             \* the process exit code, -1 while the process runs
    \* ---- runner: history
    invoked,              \* names passed to Extractor.invoke, in order
    failure,              \* what ended the run early ("none" if nothing did)
    thrownAt,             \* position in packageJsons where the tool threw, 0 if none
    \* ---- assembler: inputs
    options,              \* the argument of exports.main
    pkg,                  \* the package manifest, require(packageJsonPath)
    files,                \* what fs.existsSync answers
    nodeEnv,              \* process.env.NODE_ENV
    \* ---- assembler: outcome
    called,               \* whether exports.main has been applied
    results               \* what exports.main did: a throw or the returned list

runnerVars == <<tsconfigFile, projectPackages, unhandledRejections, pc, packageJsons,
                idx, compilerState, extractorResult, exitCode, invoked, failure,
                thrownAt>>
assemblerVars == <<options, pkg, files, nodeEnv, called, results>>
vars == <<runnerVars, assemblerVars>>

(***************************************************************************)
(* Bounds of the model.                                                    *)
(***************************************************************************)
\* Largest number of packages getPackages returns.
MaxPackages == 3
\* Largest errorCount / warningCount an extraction reports.
MaxCount == 2
\* Largest length of a caller-supplied list (external, excludedExternals).
MaxList == 2

(***************************************************************************)
(* Generic helpers.                                                        *)
(***************************************************************************)
Range(s) == {s[i] : i \in DOMAIN s}

SeqsUpTo(S, n) == UNION {[1..k -> S] : k \in 0..n}


(***************************************************************************)
(* ----------------------------------------------------------------------- *)
(* The declaration-rollup runner                                           *)
(*   src/packages/api-extractor-lerna-monorepo/index.js                    *)
(* ----------------------------------------------------------------------- *)
(***************************************************************************)

\* What the script can find at tsconfigJson: no file, a file without
\* compilerOptions, a file whose compilerOptions has no outDir, a usable file.
TsconfigFiles == {"missing", "noCompilerOptions", "noOutDir", "ok"}

\* The workspaces getPackages can list: up to MaxPackages packages, named by
\* their position, each with or without a src/index.ts.
Workspaces ==
    {w \in SeqsUpTo([name : 1..MaxPackages, hasIndexTs : BOOLEAN], MaxPackages) :
        \A i \in DOMAIN w : w[i].name = i}

\* What Extractor.invoke hands back when it returns: an ExtractorResult.
\* api-extractor sets succeeded only when it counted no error.
ExtractorResults ==
    {r \in [succeeded : BOOLEAN, errorCount : 0..MaxCount, warningCount : 0..MaxCount] :
        r.succeeded => r.errorCount = 0}

\* Line 87-89: the value extractorResult holds before Extractor.invoke returns.
\* It has no errorCount: a result with one came from Extractor.invoke.
InitialExtractorResult == [succeeded |-> FALSE]

\* What one call into api-extractor for one package can do: ExtractorConfig.prepare
\* or CompilerState.create (outside the try) throws, Extractor.invoke (inside the
\* try) throws, or Extractor.invoke returns a result.
ToolOutcomes ==
    {[kind |-> "prepareThrows"], [kind |-> "invokeThrows"]}
    \cup {[kind |-> "returns", result |-> r] : r \in ExtractorResults}

\* Lines 14-25: the two configuration checks of main; the Error thrown, or "ok".
TsconfigCheck(file) ==
    IF file = "missing" THEN "tsconfigMissing"
    ELSE IF file \in {"noCompilerOptions", "noOutDir"} THEN "noOutDir"
    ELSE "ok"

\* The list left unfiltered.
FilterPackagesKeepsAll(pkgs) == pkgs

\* Line 37: the packages to run api-extractor on.
FilterPackages(pkgs) == SelectSeq(pkgs, LAMBDA p : p.hasIndexTs)

\* A catch block that logs the failure and lets the forEach go on.
CatchBlockSwallows == [pc |-> "forEach", exitCode |-> -1, failure |-> "invokeThrew"]

\* Lines 96-100: the catch block around Extractor.invoke.
CatchBlock == [pc |-> "exited", exitCode |-> 1, failure |-> "invokeThrew"]

\* The same with warnings treated like errors.
AfterExtractionStrict(r) ==
    IF r.succeeded
    THEN [pc |-> "forEach", exitCode |-> -1, failure |-> "none"]
    ELSE IF r.errorCount + r.warningCount > 0
         THEN [pc |-> "exited", exitCode |-> 1, failure |-> "errors"]
         ELSE [pc |-> "forEach", exitCode |-> -1, failure |-> "none"]

\* Lines 102-112: what follows an Extractor.invoke that returned r.
AfterExtraction(r) ==
    IF r.succeeded
    THEN [pc |-> "forEach", exitCode |-> -1, failure |-> "none"]
    ELSE IF r.errorCount > 0
         THEN [pc |-> "exited", exitCode |-> 1, failure |-> "errors"]
         ELSE [pc |-> "forEach", exitCode |-> -1, failure |-> "none"]

\* Line 116: main() is called with no catch. What the runtime does with the
\* rejected promise is the runtime's choice: Node.js 15 and later raise it as an
\* uncaught exception (exit code 1); Node.js up to 14, and any Node.js run with
\* --unhandled-rejections=warn, only print a warning and the process ends with 0.
RejectionExitCode(mode) == IF mode = "throw" THEN 1 ELSE 0

AssemblerIdle ==
    /\ options = "idle" /\ pkg = "idle" /\ files = "idle" /\ nodeEnv = "idle"
    /\ called = FALSE /\ results = "idle"

InitRunner ==
    /\ tsconfigFile \in TsconfigFiles
    /\ projectPackages \in Workspaces
    /\ unhandledRejections \in {"throw", "warn"}
    /\ pc = "main"
    /\ packageJsons = <<>>
    /\ idx = 1
    /\ compilerState = "none"
    /\ extractorResult = InitialExtractorResult
    /\ exitCode = -1
    /\ invoked = <<>>
    /\ failure = "none"
    /\ thrownAt = 0
    /\ AssemblerIdle

\* Lines 11-39: main up to the forEach. A failed check throws inside the async
\* function, which rejects the promise main returns.
Main ==
    /\ pc = "main"
    /\ LET check == TsconfigCheck(tsconfigFile) IN
          IF check # "ok"
          THEN /\ pc' = "rejected"
               /\ failure' = check
               /\ UNCHANGED packageJsons
          ELSE /\ pc' = "forEach"
               /\ packageJsons' = FilterPackages(projectPackages)
               /\ UNCHANGED failure
    /\ UNCHANGED <<tsconfigFile, projectPackages, unhandledRejections, idx,
                   compilerState, extractorResult, exitCode, invoked, thrownAt>>
    /\ UNCHANGED assemblerVars

\* Lines 41-113: one call of the forEach callback, for packageJsons[idx].
ForEachCallback ==
    /\ pc = "forEach"
    /\ idx <= Len(packageJsons)
    /\ \E outcome \in ToolOutcomes :
          IF outcome.kind = "prepareThrows"
          THEN \* lines 50-85 throw: the forEach and main end, the promise rejects
               /\ pc' = "rejected"
               /\ failure' = "prepareThrew"
               /\ thrownAt' = idx
               /\ UNCHANGED <<idx, compilerState, extractorResult, exitCode, invoked>>
          ELSE /\ compilerState' = "created"
               /\ invoked' = Append(invoked, packageJsons[idx].name)
               /\ IF outcome.kind = "invokeThrows"
                  THEN /\ extractorResult' = InitialExtractorResult
                       /\ pc' = CatchBlock.pc
                       /\ exitCode' = CatchBlock.exitCode
                       /\ failure' = CatchBlock.failure
                       /\ thrownAt' = idx
                       /\ idx' = IF CatchBlock.pc = "forEach" THEN idx + 1 ELSE idx
                  ELSE LET next == AfterExtraction(outcome.result) IN
                       /\ extractorResult' = outcome.result
                       /\ pc' = next.pc
                       /\ exitCode' = next.exitCode
                       /\ failure' = next.failure
                       /\ idx' = IF next.pc = "forEach" THEN idx + 1 ELSE idx
                       /\ UNCHANGED thrownAt
    /\ UNCHANGED <<tsconfigFile, projectPackages, unhandledRejections, packageJsons>>
    /\ UNCHANGED assemblerVars

\* Lines 113-114: the forEach is over, main returns, its promise resolves and the
\* process, with nothing left to do, ends with exit code 0.
MainReturns ==
    /\ pc = "forEach"
    /\ idx > Len(packageJsons)
    /\ pc' = "exited"
    /\ exitCode' = 0
    /\ UNCHANGED <<tsconfigFile, projectPackages, unhandledRejections, packageJsons,
                   idx, compilerState, extractorResult, invoked, failure, thrownAt>>
    /\ UNCHANGED assemblerVars

\* Line 116: the promise of main() rejected and nothing handles it.
UnhandledRejection ==
    /\ pc = "rejected"
    /\ pc' = "exited"
    /\ exitCode' = RejectionExitCode(unhandledRejections)
    /\ UNCHANGED <<tsconfigFile, projectPackages, unhandledRejections, packageJsons,
                   idx, compilerState, extractorResult, invoked, failure, thrownAt>>
    /\ UNCHANGED assemblerVars

NextRunner == Main \/ ForEachCallback \/ MainReturns \/ UnhandledRejection

SpecRunner == InitRunner /\ [][NextRunner]_vars


(***************************************************************************)
(* ----------------------------------------------------------------------- *)
(* The bundle-config assembler                                             *)
(*   src/unnamed/part_000, exports.main                                    *)
(* ----------------------------------------------------------------------- *)
(* Values.  A path is a string, "" when the option or manifest field is    *)
(* not given (undefined and "" are both falsy); joined to the project      *)
(* folder it is <<"projectFolder", path>>, and a caller's entry file,      *)
(* taken as given, is <<path>>.  An optional list is       *)
(* [defined |-> FALSE] or [defined |-> TRUE, items |-> <<...>>].           *)
(* A dependency map (dependencies, peerDependencies) is the sequence of its *)
(* <<name, range>> entries in the manifest's order, <<>> when the manifest *)
(* has none.  A namespace is the sequence of its dot-separated segments,   *)
(* <<>> when the manifest has none.  A footer is <<>> (undefined), <<"assign", ns>> (the statement    *)
(* that Object.assign's the exports to this.<ns>) or <<"custom">> (a       *)
(* footer the manifest's bundleOutput supplies).  bundleOutput is the set  *)
(* of its <<key, value>> pairs.  A banner is the sequence of its parts.    *)
(* Of an output descriptor the model keeps banner, file, format and        *)
(* footer; of a configuration input, external, output and whether terser   *)
(* is among its plugins.  Every configuration's output is a sequence here: *)
(* the first configuration's array, and the single object of a UMD one.    *)
(***************************************************************************)

NoList == [defined |-> FALSE]
List(items) == [defined |-> TRUE, items |-> items]

DepNames == {"pixi.js", "@pixi/core"}

\* Object.keys of a dependency map: the names, in the map's order.
Keys(obj) == [i \in DOMAIN obj |-> obj[i][1]]

\* Array.prototype.includes
Includes(list, x) == \E i \in DOMAIN list : list[i] = x

\* path.join(projectFolder, p)
JoinProject(p) == <<"projectFolder", p>>

\* Entry resolution that looks for src/index.js before src/index.ts.
ResolveInputJsFirst(opts, fs) ==
    IF opts.input # "" THEN <<opts.input>>
    ELSE IF "src/index.js" \in fs THEN JoinProject("src/index.js")
    ELSE IF "src/index.ts" \in fs THEN JoinProject("src/index.ts")
    ELSE <<>>

\* Lines 94-112: the entry file, <<>> when the Error of line 111 is thrown.
ResolveInput(opts, fs) ==
    LET input1 == IF opts.input # "" THEN <<opts.input>> ELSE <<>>
        input2 == IF input1 = <<>> /\ "src/index.ts" \in fs
                  THEN JoinProject("src/index.ts") ELSE input1
        input3 == IF input2 = <<>> /\ "src/index.js" \in fs
                  THEN JoinProject("src/index.js") ELSE input2
    IN input3

\* The externals without the manifest's dependencies.
ExternalNoDependencies(opts, manifest) ==
    LET all == (IF opts.external.defined THEN opts.external.items ELSE <<>>)
               \o Keys(manifest.peerDependencies)
    IN SelectSeq(all, LAMBDA d :
                    ~(opts.excludedExternals.defined
                      /\ Includes(opts.excludedExternals.items, d)))

\* Lines 114-118: the externals.
External(opts, manifest) ==
    LET all == (IF opts.external.defined THEN opts.external.items ELSE <<>>)
               \o Keys(manifest.peerDependencies)
               \o Keys(manifest.dependencies)
    IN SelectSeq(all, LAMBDA d :
                    ~(opts.excludedExternals.defined
                      /\ Includes(opts.excludedExternals.items, d)))

\* Lines 67-79: the banner every descriptor starts from.
BaseBanner == <<"header">>

\* Lines 127-142: the output array of the first configuration.
ModuleOutputs(opts, manifest) ==
    (IF opts.main # "" \/ manifest.main # ""
     THEN <<[banner |-> BaseBanner,
             file |-> JoinProject(IF opts.main # "" THEN opts.main ELSE manifest.main),
             format |-> "cjs", footer |-> <<>>]>>
     ELSE <<>>)
    \o
    (IF opts.module # "" \/ manifest.module # ""
     THEN <<[banner |-> BaseBanner,
             file |-> JoinProject(IF opts.module # "" THEN opts.module
                                  ELSE manifest.module),
             format |-> "esm", footer |-> <<>>]>>
     ELSE <<>>)

\* A UMD bundle asked for by the caller's override only.
UmdConfiguredOptionsOnly(opts, manifest) == opts.bundle # ""

\* A UMD bundle asked for by the manifest only.
UmdConfiguredManifestOnly(opts, manifest) == manifest.bundle # ""

\* Line 144: whether a UMD bundle is asked for.
UmdConfigured(opts, manifest) == ~(opts.bundle = "" /\ manifest.bundle = "")

\* Line 151
Namespace(manifest) ==
    IF manifest.namespace # <<>> THEN manifest.namespace ELSE <<"PIXI">>

\* The footer with the standalone check left out.
FooterIgnoresStandalone(manifest) ==
    IF manifest.bundleNoExports # TRUE
    THEN <<"assign", Namespace(manifest)>>
    ELSE <<>>

\* Lines 154-160: the footer that assigns the exports to the namespace.
Footer(manifest) ==
    IF ~manifest.standalone /\ manifest.bundleNoExports # TRUE
    THEN <<"assign", Namespace(manifest)>>
    ELSE <<>>

\* Lines 157-170: the banner of the UMD descriptors, which creates the namespace.
UmdBanner(manifest) ==
    LET ns == Namespace(manifest) IN
    IF ~manifest.standalone
    THEN BaseBanner
         \o (IF Len(ns) > 1 THEN <<<<"create", <<Head(ns)>>>>>> ELSE <<>>)
         \o <<<<"create", ns>>>>
    ELSE BaseBanner

\* Object.assign(target, source): source's own keys override target's.
ObjectAssign(target, source) ==
    [k \in DOMAIN target |->
        IF \E p \in source : p[1] = k
        THEN (CHOOSE p \in source : p[1] = k)[2]
        ELSE target[k]]

\* Line 196: file.replace(/\.js$/, '.min.js'), on the bundle paths in play: a
\* path that does not end in .js is left as it is.
MinFile(file) ==
    IF file = JoinProject("o/umd.js") THEN JoinProject("o/umd.min.js")
    ELSE IF file = JoinProject("dist/index.js") THEN JoinProject("dist/index.min.js")
    ELSE file

\* Lines 177-185 and 194-202: the output of a UMD configuration.
UmdOutput(opts, manifest, min) ==
    LET file == JoinProject(IF opts.bundle # "" THEN opts.bundle ELSE manifest.bundle) IN
    ObjectAssign([banner |-> UmdBanner(manifest),
                  file |-> IF min THEN MinFile(file) ELSE file,
                  format |-> "umd",
                  footer |-> Footer(manifest)],
                 manifest.bundleOutput)

\* The production test without the environment.
ProductionOptionOnly(opts, env) == opts.production

\* Line 190: whether the minified bundle is wanted.
Production(opts, env) == env = "production" \/ opts.production

\* Lines 37-213: exports.main. [threw |-> TRUE] is the Error of line 111.
AssemblerMain(opts, manifest, fs, env) ==
    LET input == ResolveInput(opts, fs)
        external == External(opts, manifest)
        config == [input |-> input, external |-> external,
                   output |-> ModuleOutputs(opts, manifest), terser |-> FALSE]
        umd == [input |-> input, external |-> external,
                output |-> <<UmdOutput(opts, manifest, FALSE)>>, terser |-> FALSE]
        umdMin == [input |-> input, external |-> external,
                   output |-> <<UmdOutput(opts, manifest, TRUE)>>, terser |-> TRUE]
    IN IF input = <<>> THEN [threw |-> TRUE, configs |-> <<>>]
       ELSE IF ~UmdConfigured(opts, manifest)
            THEN [threw |-> FALSE, configs |-> <<config>>]
       ELSE IF Production(opts, env)
            THEN [threw |-> FALSE, configs |-> <<config, umd, umdMin>>]
       ELSE [threw |-> FALSE, configs |-> <<config, umd>>]

\* ---- the inputs the assembler is applied to

OptionalLists == {NoList} \cup {List(l) : l \in SeqsUpTo(DepNames, MaxList)}

\* The dependency maps a manifest can hold over DepNames: no name twice.
DependencyMaps ==
    {<<>>}
    \cup {<<<<d, "^5.0.0">>>> : d \in DepNames}
    \cup {<<<<d, "^5.0.0">>, <<e, "^5.0.0">>>> : <<d, e>> \in {x \in DepNames \X DepNames : x[1] # x[2]}}

AllFiles == SUBSET {"lib/main.ts", "src/index.ts", "src/index.js"}

\* Every combination of the inputs that decide the entry, the outputs, the footer
\* and the banner, with the dependency inputs at their plainest (no caller list,
\* one peer dependency).
InitOutputs ==
    /\ options \in
          [input : {"", "lib/main.ts"},
           main : {"", "o/main.js"}, module : {"", "o/module.mjs"},
           bundle : {"", "o/umd.js"},
           production : BOOLEAN,
           external : {NoList}, excludedExternals : {NoList}]
    /\ pkg \in
          [main : {"", "lib/index.js"}, module : {"", "lib/index.mjs"},
           bundle : {"", "dist/index.js", "dist/index.umd.cjs"},
           namespace : {<<>>, <<"PIXI", "tilemap">>},
           standalone : BOOLEAN,
           bundleNoExports : BOOLEAN,
           bundleOutput : {{}, {<<"footer", <<"custom">>>>}},
           peerDependencies : {<<<<"pixi.js", "^5.0.0">>>>},
           dependencies : {<<>>}]
    /\ files \in AllFiles
    /\ nodeEnv \in {"production", "development"}

\* Every combination of the dependency inputs, with the other inputs at their
\* plainest: the entry by convention or missing, a CommonJS output, a UMD bundle
\* or none, minified or not.
InitDependencies ==
    /\ options \in
          [input : {""}, main : {""}, module : {""}, bundle : {""},
           production : BOOLEAN,
           external : OptionalLists, excludedExternals : OptionalLists]
    /\ pkg \in
          [main : {"lib/index.js"}, module : {""},
           bundle : {"", "dist/index.js"},
           namespace : {<<>>},
           standalone : {FALSE},
           bundleNoExports : {FALSE},
           bundleOutput : {{}},
           peerDependencies : DependencyMaps,
           dependencies : DependencyMaps]
    /\ files \in {{}, {"src/index.ts"}}
    /\ nodeEnv = "development"

RunnerIdle ==
    /\ tsconfigFile = "idle" /\ projectPackages = <<>> /\ unhandledRejections = "idle"
    /\ pc = "idle" /\ packageJsons = <<>> /\ idx = 1 /\ compilerState = "none"
    /\ extractorResult = InitialExtractorResult /\ exitCode = -1 /\ invoked = <<>>
    /\ failure = "none" /\ thrownAt = 0

InitAssembler ==
    /\ (InitOutputs \/ InitDependencies)
    /\ called = FALSE
    /\ results = [threw |-> FALSE, configs |-> <<>>]
    /\ RunnerIdle

\* One application of exports.main to the inputs.
Assemble ==
    /\ ~called
    /\ called' = TRUE
    /\ results' = AssemblerMain(options, pkg, files, nodeEnv)
    /\ UNCHANGED <<options, pkg, files, nodeEnv>>
    /\ UNCHANGED runnerVars

NextAssembler == Assemble

SpecAssembler == InitAssembler /\ [][NextAssembler]_vars

(***************************************************************************)
(* Claims about the runner (checked under SpecRunner).                     *)
(***************************************************************************)

\* The packages of the workspace that contain a src/index.ts, and their number M.
WithEntry == {i \in DOMAIN projectPackages : projectPackages[i].hasIndexTs}
M == Cardinality(WithEntry)

\* C1: every run ends with exit code 0 when nothing failed, and with exit code 1
\* when the tsconfig file is missing, it lacks compilerOptions.outDir, the
\* extraction tool throws, or an extraction reports a nonzero error count.
C1_ExitCodes ==
    pc = "exited" => exitCode = (IF failure = "none" THEN 0 ELSE 1)

\* The exit codes of C1 on a runtime that raises unhandled rejections.
ExitCodesWhenRejectionsThrow ==
    (pc = "exited" /\ unhandledRejections = "throw")
        => exitCode = (IF failure = "none" THEN 0 ELSE 1)

\* The failures that the script itself turns into process.exit(1).
ExitCodesOfProcessExit ==
    (pc = "exited" /\ failure \in {"invokeThrew", "errors"}) => exitCode = 1

\* C2: once the extraction tool has thrown for the k-th selected package, the
\* forEach is over: no extraction was or will be invoked for a later package, and
\* a throw of Extractor.invoke has ended the process with exit code 1 at once.
C2_NoExtractionAfterThrow ==
    thrownAt # 0 =>
        /\ pc \in {"rejected", "exited"}
        /\ Len(invoked) <= thrownAt
        /\ failure = "invokeThrew" =>
              /\ pc = "exited"
              /\ exitCode = 1
              /\ Len(invoked) = thrownAt

\* Extractor.invoke threw for the second of three selected packages.
C2_Witness ==
    /\ failure = "invokeThrew"
    /\ thrownAt = 2
    /\ Len(packageJsons) = 3
    /\ pc = "exited"

\* C3: a step in which an extraction returns without succeeding ends the process
\* with exit code 1 if its error count is nonzero, and otherwise (warnings only)
\* leaves the process running with the forEach moved on to the next package; an
\* ended process processes nothing more.
C3_ErrorsStopWarningsContinue ==
    [][/\ (/\ invoked' # invoked
           /\ "errorCount" \in DOMAIN extractorResult'
           /\ ~extractorResult'.succeeded)
          => IF extractorResult'.errorCount > 0
             THEN pc' = "exited" /\ exitCode' = 1 /\ idx' = idx
             ELSE pc' = "forEach" /\ exitCode' = -1 /\ idx' = idx + 1
       /\ pc = "exited" => invoked' = invoked]_vars

\* An extraction returned with warnings only and the next package is up.
C3_Witness ==
    /\ "errorCount" \in DOMAIN extractorResult
    /\ ~extractorResult.succeeded
    /\ extractorResult.errorCount = 0
    /\ extractorResult.warningCount > 0
    /\ pc = "forEach"
    /\ idx = Len(invoked) + 1
    /\ idx <= Len(packageJsons)

\* C4 as stated: a finished run over a workspace with a usable tsconfig has made
\* exactly M extraction invocations.
C4_ExactlyM ==
    (pc = "exited" /\ tsconfigFile = "ok") => Len(invoked) = M

\* C4 amended: the invocations are for distinct packages that have the entry
\* file, so they are at most M, and they are exactly M when the run ends without
\* a configuration error, a throw of the tool or a nonzero error count.
C4_AtMostM_ExactlyOnCleanRun ==
    /\ \A i \in DOMAIN invoked : invoked[i] \in WithEntry
    /\ \A i, j \in DOMAIN invoked : i # j => invoked[i] # invoked[j]
    /\ Len(invoked) <= M
    /\ (pc = "exited" /\ failure = "none") => Len(invoked) = M

\* A clean run over three packages of which two have a src/index.ts.
C4_Witness ==
    /\ pc = "exited"
    /\ failure = "none"
    /\ Len(projectPackages) = 3
    /\ M = 2
    /\ Len(invoked) = 2

(***************************************************************************)
(* Claims about the assembler (checked under SpecAssembler).               *)
(***************************************************************************)

\* exports.main has returned a list of configurations.
Returned == called /\ ~results.threw
configs == results.configs

\* The output descriptors of all returned configurations, as <<i, j>> positions.
Descriptors == {<<i, j>> \in (1..3) \X (1..2) :
                   i \in DOMAIN configs /\ j \in DOMAIN configs[i].output}
Descriptor(d) == configs[d[1]].output[d[2]]
\* Those for the UMD bundle, unminified (min = FALSE) or minified (min = TRUE).
UmdDescriptors(min) ==
    {d \in Descriptors : Descriptor(d).format = "umd" /\ configs[d[1]].terser = min}
FormatsOf(i) == {configs[i].output[j].format : j \in DOMAIN configs[i].output}

MainWanted == options.main # "" \/ pkg.main # ""
ModuleWanted == options.module # "" \/ pkg.module # ""
BundleWanted == options.bundle # "" \/ pkg.bundle # ""
ProductionWanted == options.production \/ nodeEnv = "production"

\* C5 as stated: with bundle in the manifest and production true, two
\* configurations come back, the second holding both UMD descriptors.
C5_TwoConfigsThreeUmd ==
    (Returned /\ pkg.bundle # "" /\ options.production) =>
        /\ Len(configs) = 2
        /\ Len(configs[2].output) = 2
        /\ FormatsOf(2) = {"umd"}

\* C5 amended: with bundle in the manifest and production true, three
\* configurations come back with two UMD descriptors in total: the first holds
\* the main/module outputs that are configured and nothing else, the second only
\* the unminified UMD descriptor, the third only the minified one.
C5_ThreeConfigsTwoUmd ==
    (Returned /\ pkg.bundle # "" /\ options.production) =>
        /\ Len(configs) = 3
        /\ FormatsOf(1) = (IF MainWanted THEN {"cjs"} ELSE {})
                          \cup (IF ModuleWanted THEN {"esm"} ELSE {})
        /\ Len(configs[1].output) = Cardinality(FormatsOf(1))
        /\ UmdDescriptors(FALSE) = {<<2, 1>>}
        /\ UmdDescriptors(TRUE) = {<<3, 1>>}
        /\ Len(configs[2].output) = 1 /\ Len(configs[3].output) = 1

\* The manifest names main, module and bundle, and production is asked for.
C5_Witness ==
    /\ Returned
    /\ pkg.bundle # "" /\ pkg.main # "" /\ pkg.module # "" /\ options.bundle = ""
    /\ options.production
    /\ Len(configs) = 3
    /\ Len(configs[1].output) = 2

\* C6: no UMD descriptor without a UMD path (options.bundle or the manifest's
\* bundle); with one, exactly one unminified UMD descriptor, and one minified
\* UMD descriptor exactly when options.production is set or NODE_ENV is
\* 'production'.
C6_UmdDescriptors ==
    Returned =>
        /\ Cardinality(UmdDescriptors(FALSE)) = (IF BundleWanted THEN 1 ELSE 0)
        /\ Cardinality(UmdDescriptors(TRUE)) =
              (IF BundleWanted /\ ProductionWanted THEN 1 ELSE 0)

\* The minified descriptor is there because of NODE_ENV alone.
C6_Witness ==
    /\ Returned
    /\ BundleWanted
    /\ ~options.production /\ nodeEnv = "production"
    /\ Cardinality(UmdDescriptors(FALSE)) = 1
    /\ Cardinality(UmdDescriptors(TRUE)) = 1

\* C7 as stated: the returned configurations hold between 1 and 4 descriptors.
C7_OneToFour ==
    Returned => Cardinality(Descriptors) \in 1..4

\* C7 amended: the returned configurations hold between 0 and 4 descriptors, at
\* most one each of CommonJS, ESM, unminified UMD and minified UMD, and none at
\* all exactly when no main, module or bundle path is configured.
C7_ZeroToFour ==
    Returned =>
        /\ Cardinality(Descriptors) \in 0..4
        /\ \A d \in Descriptors : Descriptor(d).format \in {"cjs", "esm", "umd"}
        /\ \A d, e \in Descriptors :
              (/\ Descriptor(d).format = Descriptor(e).format
               /\ configs[d[1]].terser = configs[e[1]].terser) => d = e
        /\ Cardinality(Descriptors) = 0
              <=> ~(MainWanted \/ ModuleWanted \/ BundleWanted)

\* Nothing is configured and one configuration with an empty output comes back.
C7_Witness ==
    /\ Returned
    /\ ~(MainWanted \/ ModuleWanted \/ BundleWanted)
    /\ Len(configs) = 1
    /\ Cardinality(Descriptors) = 0

\* The four sets of names C8 speaks of.
CallerExternals ==
    IF options.external.defined THEN Range(options.external.items) ELSE {}
CallerExclusions ==
    IF options.excludedExternals.defined THEN Range(options.excludedExternals.items) ELSE {}
PeerNames == {pkg.peerDependencies[i][1] : i \in DOMAIN pkg.peerDependencies}
DependencyNames == {pkg.dependencies[i][1] : i \in DOMAIN pkg.dependencies}

\* C8: the externals of every returned configuration are, as a set,
\* (options.external + peerDependencies keys + dependencies keys) minus
\* options.excludedExternals.
C8_Externals ==
    Returned =>
        \A i \in DOMAIN configs :
            Range(configs[i].external) =
                (CallerExternals \cup PeerNames \cup DependencyNames) \ CallerExclusions

\* All four sets matter: a caller external, a peer and a dependency that differ
\* or overlap, one name excluded, three configurations returned.
C8_Witness ==
    /\ Returned
    /\ Len(configs) = 3
    /\ CallerExternals # {} /\ PeerNames # {} /\ DependencyNames # {}
    /\ PeerNames # DependencyNames
    /\ CallerExclusions # {}
    /\ CallerExclusions \subseteq DependencyNames
    /\ Range(configs[3].external) # {}

\* The candidates of C9 in its order, and those among them that exist.
EntryCandidates ==
    (IF options.input # "" THEN <<options.input>> ELSE <<>>)
    \o <<"src/index.ts", "src/index.js">>
ExistingCandidates == SelectSeq(EntryCandidates, LAMBDA f : f \in files)

\* C9 as stated: the entry is the first of options.input, src/index.ts,
\* src/index.js that exists, and the assembler fails when none exists.
C9_FirstExisting ==
    called =>
        IF ExistingCandidates = <<>>
        THEN results.threw /\ configs = <<>>
        ELSE /\ ~results.threw
             /\ \A i \in DOMAIN configs :
                   configs[i].input[Len(configs[i].input)] = Head(ExistingCandidates)

\* C9 amended: the entry is options.input whenever it is given, whether or not
\* that file exists; otherwise src/index.ts if it exists; otherwise src/index.js
\* if it exists; otherwise the assembler fails and returns no configuration.
C9_OverrideUnchecked ==
    called =>
        LET entry == IF options.input # "" THEN <<options.input>>
                     ELSE IF "src/index.ts" \in files THEN <<"projectFolder", "src/index.ts">>
                     ELSE IF "src/index.js" \in files THEN <<"projectFolder", "src/index.js">>
                     ELSE <<>>
        IN IF entry = <<>>
           THEN results.threw /\ configs = <<>>
           ELSE /\ ~results.threw
                /\ configs # <<>>
                /\ \A i \in DOMAIN configs : configs[i].input = entry

\* Both conventional files exist, no override: src/index.ts is the entry.
C9_Witness ==
    /\ Returned
    /\ options.input = ""
    /\ {"src/index.ts", "src/index.js"} \subseteq files
    /\ configs[1].input = <<"projectFolder", "src/index.ts">>

\* A footer that assigns the exports to a namespace object.
AttachesToNamespace(footer) == footer # <<>> /\ footer[1] = "assign"
AllUmd == UmdDescriptors(FALSE) \cup UmdDescriptors(TRUE)

\* C10 as stated: a UMD descriptor carries the namespace-attachment footer
\* exactly when the package is not standalone (taken for the manifests whose
\* bundleOutput is empty).
C10_FooterUnlessStandalone ==
    (Returned /\ pkg.bundleOutput = {}) =>
        \A d \in AllUmd : AttachesToNamespace(Descriptor(d).footer) <=> ~pkg.standalone

\* C10 amended: a UMD descriptor carries the namespace-attachment footer, for
\* the manifest's namespace or PIXI, exactly when the package is not standalone,
\* its bundleNoExports is not true and its bundleOutput supplies no footer of
\* its own; with standalone true it never carries it.
C10_FooterUnlessStandaloneOrNoExports ==
    Returned =>
        \A d \in AllUmd :
            /\ AttachesToNamespace(Descriptor(d).footer)
                  <=> (/\ ~pkg.standalone
                       /\ pkg.bundleNoExports # TRUE
                       /\ \A p \in pkg.bundleOutput : p[1] # "footer")
            /\ AttachesToNamespace(Descriptor(d).footer)
                  => Descriptor(d).footer[2] =
                        (IF pkg.namespace # <<>> THEN pkg.namespace ELSE <<"PIXI">>)
            /\ pkg.standalone => ~AttachesToNamespace(Descriptor(d).footer)

\* A standalone package whose UMD descriptors have no footer, bundleNoExports
\* not being what removes it.
C10_Witness ==
    /\ Returned
    /\ pkg.standalone /\ ~pkg.bundleNoExports /\ pkg.bundleOutput = {}
    /\ Cardinality(AllUmd) = 2
    /\ \A d \in AllUmd : Descriptor(d).footer = <<>>

====
